---- MODULE Spec2Model ----
(***************************************************************************)
(* scripts/reestimate_polya_emissions.py as a state machine.               *)
(*                                                                         *)
(* One behaviour is one invocation: either of the script (__main__, then   *)
(* main) or of one of its functions called on its own.  Files are read row *)
(* by row; the rows read so far are kept (old_rows, seg_rows, new_rows).   *)
(*                                                                         *)
(* Text fields that the code converts are tokens: an integer literal       *)
(* ("15"), a decimal literal ("47.5") or text that is no number ("abc").   *)
(* A Python float is represented by its value in tenths.  Read identifiers *)
(* are sequences of characters, so that slicing is real slicing.  The dict *)
(* `segments` is the sequence of its items in insertion order, which is    *)
(* the iteration order of a Python (3.7+) dict.                            *)
(***************************************************************************)
EXTENDS Integers, Sequences, FiniteSets, TLC

\* Bounds of the model: the number of rows read from each file.
MaxOldRows == 3
MaxSegRows == 2
MaxNewRows == 2
MaxMainRows == 2

VARIABLES
    entry,           \* what was invoked: "__main__" or a function's name
    pc,              \* position in the code
    error,           \* the uncaught exception, "none" while there is none
    argv_benchmark,  \* <<>> when --benchmark is not given, else <<its text>>
    exists,          \* os.path.exists of each of the three paths
    benchmark,       \* args.benchmark
    opened,          \* the files opened so far
    eof,             \* the files read to their end
    old_rows,        \* the rows read from the old samples file
    old_data,        \* S_loglkhd .. T_loglkhd
    seg_rows,        \* the rows read from the segmentation file
    segments,        \* the dict of make_segmentation_dict, in insertion order
    new_rows,        \* the rows read from the new samples file
    new_data,        \* S_samples .. T_samples
    rs,              \* the last direct call of region_search and its result
    stdout           \* the lines printed

vars == <<entry, pc, error, argv_benchmark, exists, benchmark, opened, eof,
          old_rows, old_data, seg_rows, segments, new_rows, new_data, rs, stdout>>

----------------------------------------------------------------------------
\* Text tokens and Python's conversions of them.

IntTok(n) == [kind |-> "int", tenths |-> 10 * n]
DecTok(t) == [kind |-> "dec", tenths |-> t]
BadTok == [kind |-> "bad", tenths |-> 0]

\* float(text) raises ValueError on text that is no number.
py_float_ok(tok) == tok.kind # "bad"
py_float(tok) == tok.tenths

\* int(text) accepts an integer literal only: int("15.0") raises ValueError.
py_int_of_str_ok(tok) == tok.kind = "int"
py_int_of_str(tok) == tok.tenths \div 10

\* int(float) truncates toward zero.
py_int_of_float(x) == IF x >= 0 THEN x \div 10 ELSE -((-x) \div 10)

\* bool(text), which argparse applies for type=bool: true of every non-empty text.
py_bool(s) == s # ""

\* s[0:n] of a sequence s: a slice stops at the end of s.
Slice(s, n) == SubSeq(s, 1, IF n < Len(s) THEN n ELSE Len(s))

----------------------------------------------------------------------------
\* The labels of region_search.
START == 0
LEADER == 1
ADAPTER == 2
POLYA == 3
CLIFF == 4
TRANSCRIPT == 5
UNKNOWN == 6

Files == {"old_samples_tsv", "segmentation_tsv", "new_samples_tsv"}

----------------------------------------------------------------------------
\* old_tsv_to_numpy

EmptyOld == [S_loglkhd |-> <<>>, L_loglkhd |-> <<>>, A_loglkhd |-> <<>>,
             P_loglkhd |-> <<>>, T_loglkhd |-> <<>>]

\* A plausible slip: the poly(A) collection takes the adapter column.
old_append_wrong_column(data, row) ==
    LET d1 == IF row.region = "START"
              THEN [data EXCEPT !.S_loglkhd = Append(@, py_float(row.s_llh))] ELSE data
        d2 == IF row.region = "LEADER"
              THEN [d1 EXCEPT !.L_loglkhd = Append(@, py_float(row.l_llh))] ELSE d1
        d3 == IF row.region = "ADAPTER"
              THEN [d2 EXCEPT !.A_loglkhd = Append(@, py_float(row.a_llh))] ELSE d2
        d4 == IF row.region = "POLYA"
              THEN [d3 EXCEPT !.P_loglkhd = Append(@, py_float(row.a_llh))] ELSE d3
        d5 == IF row.region = "TRANSCRIPT"
              THEN [d4 EXCEPT !.T_loglkhd = Append(@, py_float(row.t_llh))] ELSE d4
    IN d5

\* The five `if region == ...` statements, one after the other.
old_append(data, row) ==
    LET d1 == IF row.region = "START"
              THEN [data EXCEPT !.S_loglkhd = Append(@, py_float(row.s_llh))] ELSE data
        d2 == IF row.region = "LEADER"
              THEN [d1 EXCEPT !.L_loglkhd = Append(@, py_float(row.l_llh))] ELSE d1
        d3 == IF row.region = "ADAPTER"
              THEN [d2 EXCEPT !.A_loglkhd = Append(@, py_float(row.a_llh))] ELSE d2
        d4 == IF row.region = "POLYA"
              THEN [d3 EXCEPT !.P_loglkhd = Append(@, py_float(row.p_llh))] ELSE d3
        d5 == IF row.region = "TRANSCRIPT"
              THEN [d4 EXCEPT !.T_loglkhd = Append(@, py_float(row.t_llh))] ELSE d4
    IN d5

\* A plausible slip: a reader that swallows the ValueError of a row.
old_row_parses_lenient(row) == TRUE

\* The five float() calls of a row all succeed.
old_row_parses(row) ==
    /\ py_float_ok(row.s_llh)
    /\ py_float_ok(row.l_llh)
    /\ py_float_ok(row.a_llh)
    /\ py_float_ok(row.p_llh)
    /\ py_float_ok(row.t_llh)

\* A row of a samples file (13 columns).
SampleRow(read, idx, scaled, k, region) ==
    [tag |-> "polya-samples", read_id |-> read, chr |-> "chr1", idx |-> idx,
     sample |-> DecTok(900 + k), scaled_sample |-> scaled,
     s_llh |-> DecTok(-(100 * k + 1)), l_llh |-> DecTok(-(100 * k + 2)),
     a_llh |-> DecTok(-(100 * k + 3)), p_llh |-> DecTok(-(100 * k + 4)),
     c_llh |-> DecTok(-(100 * k + 5)), t_llh |-> DecTok(-(100 * k + 6)),
     region |-> region]

RegionNames == {"START", "LEADER", "ADAPTER", "POLYA", "TRANSCRIPT", "CLIFF"}

\* The rows old_tsv_to_numpy is given when called on its own.
OldRows ==
    {SampleRow(<<"a">>, IntTok(k), DecTok(10 * k + 5), k, r) : k \in {1, 2}, r \in RegionNames}
    \cup {[SampleRow(<<"a">>, IntTok(3), DecTok(35), 3, "POLYA") EXCEPT !.p_llh = BadTok],
          [SampleRow(<<"a">>, IntTok(3), DecTok(35), 3, "START") EXCEPT !.t_llh = BadTok]}

\* The rows of the old samples file in a run of the script.
MainOldRows ==
    {SampleRow(<<"a">>, IntTok(1), DecTok(15), 1, "START"),
     [SampleRow(<<"a">>, IntTok(2), DecTok(25), 2, "START") EXCEPT !.l_llh = BadTok],
     [SampleRow(<<"a">>, IntTok(3), DecTok(35), 3, "POLYA") EXCEPT !.c_llh = BadTok]}

Returned(next) == IF entry = "__main__" THEN next ELSE "returned"

old_open ==
    /\ pc = "old_open"
    /\ IF exists["old_samples_tsv"]
       THEN /\ opened' = opened \cup {"old_samples_tsv"}
            /\ pc' = "old_loop"
            /\ error' = error
       ELSE /\ pc' = "failed"
            /\ error' = "FileNotFoundError"
            /\ opened' = opened
    /\ UNCHANGED <<entry, argv_benchmark, exists, benchmark, eof, old_rows, old_data,
                   seg_rows, segments, new_rows, new_data, rs, stdout>>

old_row(rows, max) ==
    /\ pc = "old_loop"
    /\ Len(old_rows) < max
    /\ \E row \in rows :
          /\ old_rows' = Append(old_rows, row)
          /\ IF old_row_parses(row)
             THEN /\ old_data' = old_append(old_data, row)
                  /\ UNCHANGED <<pc, error>>
             ELSE /\ pc' = "failed"
                  /\ error' = "ValueError"
                  /\ UNCHANGED old_data
    /\ UNCHANGED <<entry, argv_benchmark, exists, benchmark, opened, eof,
                   seg_rows, segments, new_rows, new_data, rs, stdout>>

old_return ==
    /\ pc = "old_loop"
    /\ eof' = eof \cup {"old_samples_tsv"}
    /\ pc' = Returned("seg_open")
    /\ UNCHANGED <<entry, error, argv_benchmark, exists, benchmark, opened, old_rows,
                   old_data, seg_rows, segments, new_rows, new_data, rs, stdout>>

----------------------------------------------------------------------------
\* make_segmentation_dict

\* A row of a segmentation file (10 columns).
SegRow(read, b) ==
    [tag |-> "polya-segmentation", read_id |-> read, pos |-> IntTok(7),
     L_start |-> b[1], A_start |-> b[2], P_start |-> b[3], P_end |-> b[4],
     rate |-> DecTok(737), plen |-> DecTok(751), alen |-> DecTok(352)]

HasKey(segs, key) == \E i \in 1..Len(segs) : segs[i].key = key

seg_item(row) ==
    [key |-> row.read_id,
     L_start |-> py_int_of_float(py_float(row.L_start)),
     A_start |-> py_int_of_float(py_float(row.A_start)),
     P_start |-> py_int_of_float(py_float(row.P_start)),
     P_end |-> py_int_of_float(py_float(row.P_end))]

\* A plausible slip: no membership test, so that a later row overwrites the entry
\* (a dict keeps the position of a key that is assigned again).
seg_insert_overwrite(segs, row) ==
    IF HasKey(segs, row.read_id)
    THEN [i \in 1..Len(segs) |-> IF segs[i].key = row.read_id THEN seg_item(row) ELSE segs[i]]
    ELSE Append(segs, seg_item(row))

\* `if row['read_id'] not in segments.keys(): segments[row['read_id']] = {...}`
seg_insert(segs, row) ==
    IF HasKey(segs, row.read_id) THEN segs ELSE Append(segs, seg_item(row))

\* The conversions run only for a read_id that is not yet a key.
seg_row_parses(segs, row) ==
    \/ HasKey(segs, row.read_id)
    \/ /\ py_float_ok(row.L_start)
       /\ py_float_ok(row.A_start)
       /\ py_float_ok(row.P_start)
       /\ py_float_ok(row.P_end)

\* Boundaries as they stand in the file: L_start, A_start, P_start, P_end.
Bounds4(l, a, p, e) == <<DecTok(l), DecTok(a), DecTok(p), DecTok(e)>>

SegBoundaries ==
    {Bounds4(100, 200, 300, 500),   \* 10.0 20.0 30.0 50.0
     Bounds4(9, 205, 209, 300),     \* 0.9 20.5 20.9 30.0
     Bounds4(-5, 50, 50, 50),       \* -0.5 5.0 5.0 5.0
     Bounds4(300, 200, 100, 50)}    \* 30.0 20.0 10.0 5.0: not in order

SegKeys == {<<"a">>, <<"a", "b">>, <<"b">>}

\* The rows make_segmentation_dict is given when called on its own.
SegRows ==
    {SegRow(k, b) : k \in SegKeys, b \in SegBoundaries}
    \cup {SegRow(<<"b">>, <<DecTok(100), DecTok(200), DecTok(300), BadTok>>)}

\* The rows of the segmentation file in a run of the script.
MainSegRows ==
    {SegRow(<<"a">>, Bounds4(100, 200, 300, 500)),
     SegRow(<<"a">>, <<BadTok, DecTok(200), DecTok(300), DecTok(500)>>),
     [SegRow(<<"a", "b">>, Bounds4(9, 205, 209, 300)) EXCEPT !.rate = BadTok]}

seg_open ==
    /\ pc = "seg_open"
    /\ IF exists["segmentation_tsv"]
       THEN /\ opened' = opened \cup {"segmentation_tsv"}
            /\ pc' = "seg_loop"
            /\ error' = error
       ELSE /\ pc' = "failed"
            /\ error' = "FileNotFoundError"
            /\ opened' = opened
    /\ UNCHANGED <<entry, argv_benchmark, exists, benchmark, eof, old_rows, old_data,
                   seg_rows, segments, new_rows, new_data, rs, stdout>>

seg_row(rows, max) ==
    /\ pc = "seg_loop"
    /\ Len(seg_rows) < max
    /\ \E row \in rows :
          /\ seg_rows' = Append(seg_rows, row)
          /\ IF seg_row_parses(segments, row)
             THEN /\ segments' = seg_insert(segments, row)
                  /\ UNCHANGED <<pc, error>>
             ELSE /\ pc' = "failed"
                  /\ error' = "ValueError"
                  /\ UNCHANGED segments
    /\ UNCHANGED <<entry, argv_benchmark, exists, benchmark, opened, eof,
                   old_rows, old_data, new_rows, new_data, rs, stdout>>

seg_return ==
    /\ pc = "seg_loop"
    /\ eof' = eof \cup {"segmentation_tsv"}
    /\ pc' = Returned("new_open")
    /\ UNCHANGED <<entry, error, argv_benchmark, exists, benchmark, opened, old_rows,
                   old_data, seg_rows, segments, new_rows, new_data, rs, stdout>>

----------------------------------------------------------------------------
\* region_search

\* A plausible slip: leaving the scan at the first key that matches.
read_key_first(read_id, segs) ==
    LET hits == {i \in 1..Len(segs) : Slice(segs[i].key, Len(read_id)) = read_id}
    IN IF hits = {} THEN 0 ELSE CHOOSE i \in hits : \A j \in hits : i <= j

\* A plausible slip: comparing the whole key.
read_key_exact(read_id, segs) ==
    LET scan[i \in 0..Len(segs)] ==
            IF i = 0 THEN 0
            ELSE IF segs[i].key = read_id THEN i ELSE scan[i - 1]
    IN scan[Len(segs)]

\* The scan `for long_read_id in segmentations.keys()`: read_key after the i-th key,
\* as the position of the key in the dict, 0 for None.
read_key(read_id, segs) ==
    LET scan[i \in 0..Len(segs)] ==
            IF i = 0 THEN 0
            ELSE IF Slice(segs[i].key, Len(read_id)) = read_id THEN i ELSE scan[i - 1]
    IN scan[Len(segs)]

\* A plausible slip: the end of the poly(A) tail taken as exclusive.
region_of_exclusive_end(sample_ix, seg) ==
    IF sample_ix < seg.L_start THEN START
    ELSE IF sample_ix < seg.A_start THEN LEADER
    ELSE IF sample_ix < seg.P_start THEN ADAPTER
    ELSE IF sample_ix < seg.P_end THEN POLYA
    ELSE IF sample_ix > seg.P_end THEN TRANSCRIPT
    ELSE UNKNOWN

\* The five `if ...: return` statements and the final `return 6`.
region_of(sample_ix, seg) ==
    IF sample_ix < seg.L_start THEN START
    ELSE IF sample_ix < seg.A_start THEN LEADER
    ELSE IF sample_ix < seg.P_start THEN ADAPTER
    ELSE IF sample_ix <= seg.P_end THEN POLYA
    ELSE IF sample_ix > seg.P_end THEN TRANSCRIPT
    ELSE UNKNOWN

region_search(read_id, sample_ix, segs) ==
    LET k == read_key(read_id, segs)
    IN IF k = 0 THEN UNKNOWN ELSE region_of(sample_ix, segs[k])

ReadIds == {<<>>, <<"a">>, <<"a", "b">>, <<"a", "b", "c">>, <<"b">>, <<"c">>}
SampleIxs == {-1, 0, 5, 15, 20, 25, 30, 40, 50, 51}

\* region_search called on the dict that make_segmentation_dict returned.
region_search_call ==
    /\ pc = "returned"
    /\ entry = "make_segmentation_dict"
    /\ ~rs.called
    /\ \E read_id \in ReadIds, sample_ix \in SampleIxs :
          rs' = [called |-> TRUE, read_id |-> read_id, sample_ix |-> sample_ix,
                 result |-> region_search(read_id, sample_ix, segments)]
    /\ UNCHANGED <<entry, pc, error, argv_benchmark, exists, benchmark, opened, eof,
                   old_rows, old_data, seg_rows, segments, new_rows, new_data, stdout>>

----------------------------------------------------------------------------
\* new_tsv_to_numpy

EmptyNew == [S_samples |-> <<>>, L_samples |-> <<>>, A_samples |-> <<>>,
             P_samples |-> <<>>, T_samples |-> <<>>]

\* A plausible slip: the label the code skips (4) taken for TRANSCRIPT.
new_append_label4(data, x, region) ==
    LET d1 == IF region = 0 THEN [data EXCEPT !.S_samples = Append(@, x)] ELSE data
        d2 == IF region = 1 THEN [d1 EXCEPT !.L_samples = Append(@, x)] ELSE d1
        d3 == IF region = 2 THEN [d2 EXCEPT !.A_samples = Append(@, x)] ELSE d2
        d4 == IF region = 3 THEN [d3 EXCEPT !.P_samples = Append(@, x)] ELSE d3
        d5 == IF region = 4 THEN [d4 EXCEPT !.T_samples = Append(@, x)] ELSE d4
    IN d5

\* The five `if region == ...` statements, one after the other.
new_append(data, x, region) ==
    LET d1 == IF region = 0 THEN [data EXCEPT !.S_samples = Append(@, x)] ELSE data
        d2 == IF region = 1 THEN [d1 EXCEPT !.L_samples = Append(@, x)] ELSE d1
        d3 == IF region = 2 THEN [d2 EXCEPT !.A_samples = Append(@, x)] ELSE d2
        d4 == IF region = 3 THEN [d3 EXCEPT !.P_samples = Append(@, x)] ELSE d3
        d5 == IF region = 5 THEN [d4 EXCEPT !.T_samples = Append(@, x)] ELSE d4
    IN d5

\* float(row['scaled_sample']) and int(row['idx']) both succeed.
new_row_parses(row) ==
    /\ py_float_ok(row.scaled_sample)
    /\ py_int_of_str_ok(row.idx)

NewReadIds == {<<"a">>, <<"c">>}
NewIdxs == {5, 15, 25, 30, 51}

\* The rows new_tsv_to_numpy is given when called on its own.
NewRows ==
    {SampleRow(r, IntTok(i), DecTok(s), 1, "START") :
        r \in NewReadIds, i \in NewIdxs, s \in {15, 25}}
    \cup {[SampleRow(<<"a">>, IntTok(5), DecTok(35), 1, "START") EXCEPT !.scaled_sample = BadTok],
          SampleRow(<<"a">>, DecTok(150), DecTok(35), 1, "START")}

\* The rows of the new samples file in a run of the script.
MainNewRows ==
    {SampleRow(<<"a">>, IntTok(30), DecTok(15), 1, "START"),
     SampleRow(<<"a">>, BadTok, DecTok(25), 2, "START"),
     [SampleRow(<<"c">>, IntTok(5), DecTok(35), 3, "START") EXCEPT !.sample = BadTok]}

\* The dicts new_tsv_to_numpy is given when called on its own.
Item(key, l, a, p, e) ==
    [key |-> key, L_start |-> l, A_start |-> a, P_start |-> p, P_end |-> e]

NewSegmentations ==
    {<<>>,
     <<Item(<<"a", "b">>, 10, 20, 30, 50)>>,
     <<Item(<<"a">>, 10, 20, 30, 50), Item(<<"a", "b">>, 30, 20, 10, 5)>>}

new_open ==
    /\ pc = "new_open"
    /\ IF exists["new_samples_tsv"]
       THEN /\ opened' = opened \cup {"new_samples_tsv"}
            /\ pc' = "new_loop"
            /\ error' = error
       ELSE /\ pc' = "failed"
            /\ error' = "FileNotFoundError"
            /\ opened' = opened
    /\ UNCHANGED <<entry, argv_benchmark, exists, benchmark, eof, old_rows, old_data,
                   seg_rows, segments, new_rows, new_data, rs, stdout>>

new_row(rows, max) ==
    /\ pc = "new_loop"
    /\ Len(new_rows) < max
    /\ \E row \in rows :
          /\ new_rows' = Append(new_rows, row)
          /\ IF new_row_parses(row)
             THEN /\ new_data' = new_append(new_data, py_float(row.scaled_sample),
                                     region_search(row.read_id, py_int_of_str(row.idx), segments))
                  /\ UNCHANGED <<pc, error>>
             ELSE /\ pc' = "failed"
                  /\ error' = "ValueError"
                  /\ UNCHANGED new_data
    /\ UNCHANGED <<entry, argv_benchmark, exists, benchmark, opened, eof,
                   old_rows, old_data, seg_rows, segments, rs, stdout>>

new_return ==
    /\ pc = "new_loop"
    /\ eof' = eof \cup {"new_samples_tsv"}
    /\ pc' = Returned("loaded")
    /\ UNCHANGED <<entry, error, argv_benchmark, exists, benchmark, opened, old_rows,
                   old_data, seg_rows, segments, new_rows, new_data, rs, stdout>>

----------------------------------------------------------------------------
\* __main__ and main

BenchmarkArgs == {<<>>, <<"True">>, <<"False">>, <<"">>}

\* add_argument("--benchmark", default=True, type=bool): the default when the option
\* is absent, else bool() of its text.
parse_benchmark(arg) == IF arg = <<>> THEN TRUE ELSE py_bool(arg[1])

parse_args ==
    /\ pc = "parse_args"
    /\ benchmark' = parse_benchmark(argv_benchmark)
    /\ pc' = "assert_old"
    /\ UNCHANGED <<entry, error, argv_benchmark, exists, opened, eof, old_rows, old_data,
                   seg_rows, segments, new_rows, new_data, rs, stdout>>

\* A plausible slip: the third check repeating the first path.
checked_path_copy_paste(at) ==
    IF at = "assert_seg" THEN "segmentation_tsv" ELSE "old_samples_tsv"

\* The path each of the three assert statements checks.
checked_path(at) ==
    CASE at = "assert_old" -> "old_samples_tsv"
      [] at = "assert_seg" -> "segmentation_tsv"
      [] at = "assert_new" -> "new_samples_tsv"

\* assert os.path.exists(path)
assert_exists(at, next) ==
    /\ pc = at
    /\ IF exists[checked_path(at)]
       THEN /\ pc' = next
            /\ error' = error
       ELSE /\ pc' = "failed"
            /\ error' = "AssertionError"
    /\ UNCHANGED <<entry, argv_benchmark, exists, benchmark, opened, eof, old_rows,
                   old_data, seg_rows, segments, new_rows, new_data, rs, stdout>>

assert_old == assert_exists("assert_old", "assert_seg")
assert_seg == assert_exists("assert_seg", "assert_new")
assert_new == assert_exists("assert_new", "main")

BenchmarkHeader == "===== Emission Log-Likelihood Benchmarks ====="

\* The line of the two averages of a region: the format string with the names of the
\* two variables it is given, as in .format(old_S_llh, new_S_llh).
OldAvgLine(r) ==
    CASE r = "START" ->
           "> Old avg. log-likelihood: {old_S_llh} | New avg. log-likelihood: {new_S_llh}"
      [] r = "LEADER" ->
           "> Old avg. log-likelihood: {old_L_llh} | New avg. log-likelihood: {new_L_llh}"
      [] r = "ADAPTER" ->
           "> Old avg. log-likelihood: {old_A_llh} | New avg. log-likelihood: {new_A_llh}"
      [] r = "POLYA" ->
           "> Old avg. log-likelihood: {old_P_llh} | New avg. log-likelihood: {new_P_llh}"
      [] r = "TRANSCRIPT" ->
           "> Old avg. log-likelihood: {old_T_llh} | New avg. log-likelihood: {new_T_llh}"

\* A plausible slip: the poly(A) line printed between the two adapter lines.
param_lines_misordered ==
    <<"New params for START", "New params for LEADER", "New params for ADAPTER0",
      "New params for POLYA", "New params for ADAPTER1", "New params for TRANSCR0",
      "New params for TRANSCR1">>

\* The seven print statements of the fitted parameters, in the order of the code.
param_lines ==
    <<"New params for START", "New params for LEADER", "New params for ADAPTER0",
      "New params for ADAPTER1", "New params for POLYA", "New params for TRANSCR0",
      "New params for TRANSCR1">>

\* The prints of the benchmark: the header, then per region its title and its line
\* of the two averages ({0} and {1} are the old and the new average of `region`).
benchmark_lines ==
    <<BenchmarkHeader,
      "> Average START log-probs:", OldAvgLine("START"),
      "> Average LEADER log-probs:", OldAvgLine("LEADER"),
      "> Average ADAPTER log-probs:", OldAvgLine("ADAPTER"),
      "> Average POLYA log-probs:", OldAvgLine("POLYA"),
      "> Average TRANSCRIPT log-probs:", OldAvgLine("TRANSCRIPT")>>

main_start ==
    /\ pc = "main"
    /\ stdout' = Append(stdout, "Loading data from TSV...")
    /\ pc' = "old_open"
    /\ UNCHANGED <<entry, error, argv_benchmark, exists, benchmark, opened, eof, old_rows,
                   old_data, seg_rows, segments, new_rows, new_data, rs>>

loaded ==
    /\ pc = "loaded"
    /\ stdout' = Append(stdout, "... Datasets loaded.")
    /\ pc' = "fit"
    /\ UNCHANGED <<entry, error, argv_benchmark, exists, benchmark, opened, eof, old_rows,
                   old_data, seg_rows, segments, new_rows, new_data, rs>>

\* The five fits.  norm.fit and GaussianMixture.fit are library code: a fit returns
\* or raises (GaussianMixture does on too few samples).
fit ==
    /\ pc = "fit"
    /\ stdout' = Append(stdout, "Fitting gaussians to new scaled samples (this may take a while)...")
    /\ \E raises \in BOOLEAN :
          IF raises
          THEN /\ pc' = "failed"
               /\ error' = "ValueError"
          ELSE /\ pc' = "print_params"
               /\ error' = error
    /\ UNCHANGED <<entry, argv_benchmark, exists, benchmark, opened, eof, old_rows,
                   old_data, seg_rows, segments, new_rows, new_data, rs>>

print_params ==
    /\ pc = "print_params"
    /\ stdout' = stdout \o param_lines
    /\ pc' = "benchmark_check"
    /\ UNCHANGED <<entry, error, argv_benchmark, exists, benchmark, opened, eof, old_rows,
                   old_data, seg_rows, segments, new_rows, new_data, rs>>

\* `if not benchmark: return`
benchmark_return ==
    /\ pc = "benchmark_check"
    /\ ~benchmark
    /\ pc' = "done"
    /\ UNCHANGED <<entry, error, argv_benchmark, exists, benchmark, opened, eof, old_rows,
                   old_data, seg_rows, segments, new_rows, new_data, rs, stdout>>

benchmark_report ==
    /\ pc = "benchmark_check"
    /\ benchmark
    /\ stdout' = stdout \o benchmark_lines
    /\ pc' = "done"
    /\ UNCHANGED <<entry, error, argv_benchmark, exists, benchmark, opened, eof, old_rows,
                   old_data, seg_rows, segments, new_rows, new_data, rs>>

----------------------------------------------------------------------------
\* Specifications

NoCall == [called |-> FALSE, read_id |-> <<>>, sample_ix |-> 0, result |-> UNKNOWN]

InitCommon ==
    /\ error = "none"
    /\ benchmark = TRUE
    /\ opened = {}
    /\ eof = {}
    /\ old_rows = <<>>
    /\ old_data = EmptyOld
    /\ seg_rows = <<>>
    /\ new_rows = <<>>
    /\ new_data = EmptyNew
    /\ rs = NoCall
    /\ stdout = <<>>

\* A run of the script.
Init ==
    /\ InitCommon
    /\ entry = "__main__"
    /\ pc = "parse_args"
    /\ argv_benchmark \in BenchmarkArgs
    /\ exists \in [Files -> BOOLEAN]
    /\ segments = <<>>

Next ==
    \/ parse_args
    \/ assert_old
    \/ assert_seg
    \/ assert_new
    \/ main_start
    \/ old_open
    \/ old_row(MainOldRows, MaxMainRows)
    \/ old_return
    \/ seg_open
    \/ seg_row(MainSegRows, MaxMainRows)
    \/ seg_return
    \/ new_open
    \/ new_row(MainNewRows, MaxMainRows)
    \/ new_return
    \/ loaded
    \/ fit
    \/ print_params
    \/ benchmark_return
    \/ benchmark_report

Spec == Init /\ [][Next]_vars

\* A function called on its own, on a path that exists or does not.
InitCall(fn, start) ==
    /\ InitCommon
    /\ entry = fn
    /\ pc = start
    /\ argv_benchmark = <<>>
    /\ exists \in {[f \in Files |-> b] : b \in BOOLEAN}

InitOld == InitCall("old_tsv_to_numpy", "old_open") /\ segments = <<>>

NextOld ==
    \/ old_open
    \/ old_row(OldRows, MaxOldRows)
    \/ old_return

SpecOld == InitOld /\ [][NextOld]_vars

\* make_segmentation_dict called on its own, and region_search on what it returned.
InitIndex == InitCall("make_segmentation_dict", "seg_open") /\ segments = <<>>

NextIndex ==
    \/ seg_open
    \/ seg_row(SegRows, MaxSegRows)
    \/ seg_return
    \/ region_search_call

SpecIndex == InitIndex /\ [][NextIndex]_vars

InitNew == InitCall("new_tsv_to_numpy", "new_open") /\ segments \in NewSegmentations

NextNew ==
    \/ new_open
    \/ new_row(NewRows, MaxNewRows)
    \/ new_return

SpecNew == InitNew /\ [][NextNew]_vars

----------------------------------------------------------------------------
\* Claims about region_search and make_segmentation_dict (SpecIndex)

\* read_id is a prefix of key.
IsPrefix(read_id, key) ==
    /\ Len(read_id) <= Len(key)
    /\ \A j \in 1..Len(read_id) : key[j] = read_id[j]

\* The position of the last key of segs that read_id is a prefix of, 0 without one.
LastMatch(read_id, segs) ==
    LET hits == {i \in 1..Len(segs) : IsPrefix(read_id, segs[i].key)}
    IN IF hits = {} THEN 0 ELSE CHOOSE i \in hits : \A j \in hits : j <= i

\* The classification the specification gives, by intervals.
RefRegion(x, l, a, p, e) ==
    CASE x < l -> START
      [] x >= l /\ x < a -> LEADER
      [] x >= l /\ x >= a /\ x < p -> ADAPTER
      [] x >= l /\ x >= a /\ x >= p /\ x <= e -> POLYA
      [] x >= l /\ x >= a /\ x >= p /\ x > e -> TRANSCRIPT

\* The specification's example: boundaries 10, 20, 30, 50.
ExampleRegion(x) ==
    CASE x = 5 -> START
      [] x = 15 -> LEADER
      [] x = 25 -> ADAPTER
      [] x = 30 -> POLYA
      [] x = 50 -> POLYA
      [] x = 51 -> TRANSCRIPT

UsedItem == segments[read_key(rs.read_id, segments)]

\* C1: for a read whose key is matched, region_search returns the first of
\* `< L_start` START, `< A_start` LEADER, `< P_start` ADAPTER, `<= P_end` POLYA,
\* `> P_end` TRANSCRIPT that holds of the sample index; with the boundaries
\* 10, 20, 30, 50 the indices 5, 15, 25, 30, 50, 51 give START, LEADER, ADAPTER,
\* POLYA, POLYA, TRANSCRIPT.
C1_RegionByBoundaries ==
    (rs.called /\ read_key(rs.read_id, segments) # 0) =>
        /\ rs.result = RefRegion(rs.sample_ix, UsedItem.L_start, UsedItem.A_start,
                                 UsedItem.P_start, UsedItem.P_end)
        /\ (/\ <<UsedItem.L_start, UsedItem.A_start, UsedItem.P_start, UsedItem.P_end>>
                  = <<10, 20, 30, 50>>
            /\ rs.sample_ix \in {5, 15, 25, 30, 50, 51})
           => rs.result = ExampleRegion(rs.sample_ix)

C1_Witness ==
    /\ rs.called
    /\ read_key(rs.read_id, segments) # 0
    /\ <<UsedItem.L_start, UsedItem.A_start, UsedItem.P_start, UsedItem.P_end>> = <<10, 20, 30, 50>>
    /\ rs.sample_ix = 50
    /\ rs.result = POLYA

\* C2: read_id is matched as a prefix of the keys, and of the keys it is a prefix of,
\* the one visited last (in insertion order) gives the boundaries, also when an
\* earlier key equals read_id.
C2_LastPrefixMatchWins ==
    rs.called =>
        /\ read_key(rs.read_id, segments) = LastMatch(rs.read_id, segments)
        /\ LastMatch(rs.read_id, segments) # 0 =>
              rs.result = region_of(rs.sample_ix, segments[LastMatch(rs.read_id, segments)])

C2_Witness ==
    /\ rs.called
    /\ Len(segments) = 2
    /\ segments[1].key = rs.read_id
    /\ segments[2].key # rs.read_id
    /\ LastMatch(rs.read_id, segments) = 2
    /\ rs.result = region_of(rs.sample_ix, segments[2])
    /\ rs.result # region_of(rs.sample_ix, segments[1])

\* C3: region_search returns UNKNOWN exactly when read_id is a prefix of no key, and
\* never returns the label of CLIFF.
C3_UnknownIffNoMatch ==
    rs.called =>
        /\ (rs.result = UNKNOWN) <=> (LastMatch(rs.read_id, segments) = 0)
        /\ rs.result # CLIFF
        /\ rs.result \in {START, LEADER, ADAPTER, POLYA, TRANSCRIPT, UNKNOWN}

C3_Witness ==
    /\ rs.called
    /\ segments # <<>>
    /\ LastMatch(rs.read_id, segments) = 0
    /\ rs.result = UNKNOWN

\* The integer a value in tenths truncates to: the one whole number between zero
\* and the value that is less than one away from it.
TruncRef(t) ==
    CHOOSE n \in ((t \div 10) - 1)..((t \div 10) + 1) :
        /\ (t >= 0 => 10 * n <= t /\ t < 10 * n + 10)
        /\ (t < 0 => 10 * n >= t /\ t > 10 * n - 10)

\* The rows make_segmentation_dict has put through its loop body.
SegRowsDone == IF error = "ValueError" THEN SubSeq(seg_rows, 1, Len(seg_rows) - 1) ELSE seg_rows

FirstRowOf(read_id, rows) ==
    rows[CHOOSE i \in 1..Len(rows) :
            /\ rows[i].read_id = read_id
            /\ \A j \in 1..(i - 1) : rows[j].read_id # read_id]

\* C4: the index holds exactly one entry per read identifier seen, with the four
\* boundaries of the first row of that identifier, each truncated to an integer;
\* later rows of the identifier change nothing.
C4_FirstRowWins ==
    /\ \A i, j \in 1..Len(segments) : segments[i].key = segments[j].key => i = j
    /\ {segments[i].key : i \in 1..Len(segments)}
          = {SegRowsDone[i].read_id : i \in 1..Len(SegRowsDone)}
    /\ \A i \in 1..Len(segments) :
          LET row == FirstRowOf(segments[i].key, SegRowsDone)
          IN /\ segments[i].L_start = TruncRef(row.L_start.tenths)
             /\ segments[i].A_start = TruncRef(row.A_start.tenths)
             /\ segments[i].P_start = TruncRef(row.P_start.tenths)
             /\ segments[i].P_end = TruncRef(row.P_end.tenths)

C4_Witness ==
    /\ pc = "returned"
    /\ Len(seg_rows) = 2
    /\ seg_rows[1].read_id = seg_rows[2].read_id
    /\ seg_rows[1].L_start # seg_rows[2].L_start
    /\ Len(segments) = 1
    /\ segments[1].L_start = 0
    /\ seg_rows[1].L_start.tenths = -5

----------------------------------------------------------------------------
\* Claims about new_tsv_to_numpy (SpecNew) and old_tsv_to_numpy (SpecOld)

\* The rows new_tsv_to_numpy has put through its loop body.
NewRowsDone == IF error = "ValueError" THEN SubSeq(new_rows, 1, Len(new_rows) - 1) ELSE new_rows

ClassOf(row) == region_search(row.read_id, row.idx.tenths \div 10, segments)

\* The scaled samples, in file order, of the rows classified as `label`.
RECURSIVE ScaledOf(_, _)
ScaledOf(rows, label) ==
    IF rows = <<>> THEN <<>>
    ELSE LET rest == ScaledOf(SubSeq(rows, 1, Len(rows) - 1), label)
             last == rows[Len(rows)]
         IN IF ClassOf(last) = label THEN Append(rest, last.scaled_sample.tenths) ELSE rest

\* C5: every row read adds its scaled sample to the one collection of its region
\* and a row classified UNKNOWN adds it to none: the sizes of the five collections
\* and the number of UNKNOWN rows add up to the number of rows read.
C5_AggregationPartition ==
    /\ new_data.S_samples = ScaledOf(NewRowsDone, START)
    /\ new_data.L_samples = ScaledOf(NewRowsDone, LEADER)
    /\ new_data.A_samples = ScaledOf(NewRowsDone, ADAPTER)
    /\ new_data.P_samples = ScaledOf(NewRowsDone, POLYA)
    /\ new_data.T_samples = ScaledOf(NewRowsDone, TRANSCRIPT)
    /\ Len(new_data.S_samples) + Len(new_data.L_samples) + Len(new_data.A_samples)
          + Len(new_data.P_samples) + Len(new_data.T_samples)
          + Cardinality({i \in 1..Len(NewRowsDone) : ClassOf(NewRowsDone[i]) = UNKNOWN})
       = Len(NewRowsDone)

C5_Witness ==
    /\ pc = "returned"
    /\ entry = "new_tsv_to_numpy"
    /\ Len(new_rows) = 2
    /\ ClassOf(new_rows[1]) = UNKNOWN
    /\ ClassOf(new_rows[2]) = TRANSCRIPT
    /\ segments # <<>>
    /\ Len(new_data.T_samples) = 1

\* The rows old_tsv_to_numpy has put through its loop body.
OldRowsDone == IF error = "ValueError" THEN SubSeq(old_rows, 1, Len(old_rows) - 1) ELSE old_rows

\* The log-likelihood column of a region.
ColumnOf(row, region) ==
    CASE region = "START" -> row.s_llh.tenths
      [] region = "LEADER" -> row.l_llh.tenths
      [] region = "ADAPTER" -> row.a_llh.tenths
      [] region = "POLYA" -> row.p_llh.tenths
      [] region = "TRANSCRIPT" -> row.t_llh.tenths

\* The column of `region`, in file order, of the rows whose region field is `region`.
RECURSIVE LlhOf(_, _)
LlhOf(rows, region) ==
    IF rows = <<>> THEN <<>>
    ELSE LET rest == LlhOf(SubSeq(rows, 1, Len(rows) - 1), region)
             last == rows[Len(rows)]
         IN IF last.region = region THEN Append(rest, ColumnOf(last, region)) ELSE rest

\* C9: the collection of each region holds, in file order, the column of that region
\* of the rows whose region field names it; a row of any other region field adds to
\* no collection, and no row adds to more than one.
C9_OldColumnsByRegion ==
    /\ old_data.S_loglkhd = LlhOf(OldRowsDone, "START")
    /\ old_data.L_loglkhd = LlhOf(OldRowsDone, "LEADER")
    /\ old_data.A_loglkhd = LlhOf(OldRowsDone, "ADAPTER")
    /\ old_data.P_loglkhd = LlhOf(OldRowsDone, "POLYA")
    /\ old_data.T_loglkhd = LlhOf(OldRowsDone, "TRANSCRIPT")
    /\ Len(old_data.S_loglkhd) + Len(old_data.L_loglkhd) + Len(old_data.A_loglkhd)
          + Len(old_data.P_loglkhd) + Len(old_data.T_loglkhd)
       = Cardinality({i \in 1..Len(OldRowsDone) :
                         OldRowsDone[i].region \in {"START", "LEADER", "ADAPTER", "POLYA", "TRANSCRIPT"}})

C9_Witness ==
    /\ pc = "returned"
    /\ entry = "old_tsv_to_numpy"
    /\ Len(old_rows) = 3
    /\ old_rows[1].region = "POLYA"
    /\ old_rows[2].region = "CLIFF"
    /\ old_rows[3].region = "POLYA"
    /\ Len(old_data.P_loglkhd) = 2
    /\ old_data.P_loglkhd[1] # old_data.P_loglkhd[2]

----------------------------------------------------------------------------
\* Claims about a run of the script (Spec)

IsParamLine(l) ==
    l \in {"New params for START", "New params for LEADER", "New params for ADAPTER0",
           "New params for ADAPTER1", "New params for POLYA", "New params for TRANSCR0",
           "New params for TRANSCR1"}

IsOldAvgLine(l) ==
    l \in {OldAvgLine(r) : r \in {"START", "LEADER", "ADAPTER", "POLYA", "TRANSCRIPT"}}

Printed(l) == \E i \in 1..Len(stdout) : stdout[i] = l

NoResultLine ==
    \A i \in 1..Len(stdout) :
        /\ ~IsParamLine(stdout[i])
        /\ ~IsOldAvgLine(stdout[i])
        /\ stdout[i] # BenchmarkHeader

\* C6: --benchmark is true by default, and given as False the run prints the seven
\* parameter lines and neither the benchmark header nor a line of averages.
C6_BenchmarkFalseSkips ==
    /\ (argv_benchmark = <<>> /\ pc # "parse_args") => benchmark
    /\ (argv_benchmark = <<"False">> /\ pc = "done") =>
          /\ SelectSeq(stdout, IsParamLine) = param_lines
          /\ ~Printed(BenchmarkHeader)
          /\ \A i \in 1..Len(stdout) : ~IsOldAvgLine(stdout[i])

\* C7: with one of the three files missing the run fails at the existence checks:
\* main is not entered, no file is opened or read, nothing is printed, and the run
\* ends failed, not done.
C7_MissingInputFailsFirst ==
    (\E f \in Files : ~exists[f]) =>
        /\ pc \in {"parse_args", "assert_old", "assert_seg", "assert_new", "failed"}
        /\ pc = "failed" => error = "AssertionError"
        /\ pc # "failed" => ENABLED Next
        /\ opened = {}
        /\ eof = {}
        /\ old_rows = <<>> /\ seg_rows = <<>> /\ new_rows = <<>>
        /\ old_data = EmptyOld /\ segments = <<>> /\ new_data = EmptyNew
        /\ stdout = <<>>

C7_Witness ==
    /\ exists["old_samples_tsv"]
    /\ exists["segmentation_tsv"]
    /\ ~exists["new_samples_tsv"]
    /\ pc = "failed"
    /\ error = "AssertionError"

\* The run stopped at the last row read of `rows`, before any later file was read
\* and with no result printed.
AbortedAt(rows, i, later) ==
    /\ i = Len(rows)
    /\ pc = "failed"
    /\ error = "ValueError"
    /\ later = <<>>
    /\ NoResultLine

NotNumber(row, fields) == \E f \in fields : row[f].kind = "bad"

SampleNumericFields ==
    {"idx", "sample", "scaled_sample", "s_llh", "l_llh", "a_llh", "p_llh", "c_llh", "t_llh"}

SegNumericFields == {"pos", "L_start", "A_start", "P_start", "P_end", "rate", "plen", "alen"}

\* C8 as stated: a value that is no number in any numeric field of any row read
\* stops the run at that row.
C8_AnyNonNumericAborts ==
    /\ \A i \in 1..Len(old_rows) :
          NotNumber(old_rows[i], SampleNumericFields) => AbortedAt(old_rows, i, seg_rows \o new_rows)
    /\ \A i \in 1..Len(seg_rows) :
          NotNumber(seg_rows[i], SegNumericFields) => AbortedAt(seg_rows, i, new_rows)
    /\ \A i \in 1..Len(new_rows) :
          NotNumber(new_rows[i], SampleNumericFields) => AbortedAt(new_rows, i, <<>>)

\* C8 as amended: a value the reader cannot convert, in a field the reader converts,
\* stops the run at that row: the five log-likelihood columns it reads of an old
\* row, the four boundaries of a segmentation row whose read identifier no earlier
\* row carries, and scaled_sample and idx (an integer literal) of a new row.
C8_ConvertedFieldAborts ==
    /\ \A i \in 1..Len(old_rows) :
          NotNumber(old_rows[i], {"s_llh", "l_llh", "a_llh", "p_llh", "t_llh"})
             => AbortedAt(old_rows, i, seg_rows \o new_rows)
    /\ \A i \in 1..Len(seg_rows) :
          (/\ NotNumber(seg_rows[i], {"L_start", "A_start", "P_start", "P_end"})
           /\ \A j \in 1..(i - 1) : seg_rows[j].read_id # seg_rows[i].read_id)
             => AbortedAt(seg_rows, i, new_rows)
    /\ \A i \in 1..Len(new_rows) :
          (NotNumber(new_rows[i], {"scaled_sample"}) \/ new_rows[i].idx.kind # "int")
             => AbortedAt(new_rows, i, <<>>)

C8_Witness ==
    /\ Len(seg_rows) = 2
    /\ seg_rows[1].read_id # seg_rows[2].read_id
    /\ NotNumber(seg_rows[1], {"rate"})
    /\ NotNumber(seg_rows[2], {"L_start"})
    /\ pc = "failed"
    /\ error = "ValueError"
    /\ Len(old_rows) > 0

====
